---- MODULE Spec2Model ----
(***************************************************************************)
(* Credential pool scheduler of src/gemini_pool.py (class GeminiAPIPool).  *)
(*                                                                         *)
(* Time is in seconds.  The clock moves on a grid of half a cooldown, so   *)
(* that for a failure at T the instants strictly inside the cooldown,      *)
(* exactly at T + cooldown_duration and past it are all visited.           *)
(* asyncio.sleep only yields here: the grid is coarser than the 1 s and    *)
(* 0.5 s backoffs, and the clock may or may not move while a task sleeps,  *)
(* so two successive calls may read the same time.                         *)
(*                                                                         *)
(* get_available_key is split into the steps of its critical section so    *)
(* that the atomicity of selection and increment rests on self.lock and    *)
(* not on the grain of the model.                                          *)
(***************************************************************************)
EXTENDS Integers, Sequences, FiniteSets, TLC

\* ---------------------------------------------------------------- bounds
NumTasks == 2
MaxTicks == 3
MaxRetriesArg == 3

\* ------------------------------------------------------ program constants
cooldown_duration == 60
DefaultMaxRequests == 60
StartTime == 1
\* asyncio.sleep(1) and asyncio.sleep(0.5), in milliseconds
NoKeyBackoff == 1000
FailureBackoff == 500
\* the same two sleeps in generate_content_stream_with_retry
StreamNoKeyBackoff == 1000
StreamFailureBackoff == 500
\* key_status.key[-8:]
KeyIdLength == 8

Tasks == 1..NumTasks
NoTask == 0
None == "None"
ClockStep == cooldown_duration \div 2

\* api_keys lists a pool can be constructed from
KeyLists == { <<"A">>, <<"A", "B">>, <<"A", "B", "C">>, <<"A", "A">> }
\* values of pool.max_requests_per_minute (the attribute is 60 after
\* construction; 1 is the value of the two-credential scenario)
MaxRequestsValues == { 1, DefaultMaxRequests }
\* str(e).lower() of the upstream errors a unit of work raises
ErrorTexts == { "rate limit: quota exceeded", "api key invalid",
                "deadline exceeded" }
MaxRetriesValues == 0..MaxRetriesArg

VARIABLES
    api_keys,                 \* self.api_keys
    max_requests_per_minute,  \* self.max_requests_per_minute
    last_used,                \* key_status[k].last_used
    request_count,            \* key_status[k].request_count
    is_available,             \* key_status[k].is_available
    cooldown_until,           \* key_status[k].cooldown_until
    lock,                     \* holder of self.lock, or NoTask
    now,                      \* time.time()
    op,                       \* public operation a task is running
    pc,                       \* position of the task inside it
    max_retries,              \* argument of generate_content_with_retry
    attempt,                  \* loop variable of generate_content_with_retry
    api_key,                  \* api_key local / argument of mark_key_failed
    current_time,             \* current_time local of get_available_key
    selected_key,             \* selected_key local of get_available_key
    loaded,                   \* value read by request_count += 1
    e,                        \* caught exception text
    result,                   \* how the public operation ended
    trace,                    \* per generate call: key and outcome of each attempt
    backoff,                  \* milliseconds of the asyncio.sleep a task is in
    configured,               \* api_key of the last genai.configure call
    cache,                    \* response_cache.cache: hashed key -> entry
    called,                   \* the last cache call: arguments, time, return
    stored                    \* the (prompt, response) pairs given to
                              \* cache_ai_response so far

poolVars == <<api_keys, max_requests_per_minute, last_used, request_count,
              is_available, cooldown_until, lock, now>>
taskVars == <<op, pc, max_retries, attempt, api_key, current_time,
              selected_key, loaded, e, result, trace, backoff>>
cacheVars == <<cache, called, stored>>
vars == <<poolVars, taskVars, configured, cacheVars>>

Range(s) == { s[i] : i \in 1..Len(s) }
KeySet == Range(api_keys)

\* position of a record in the key_status dict (insertion order)
DictIndex(k) == CHOOSE i \in 1..Len(api_keys) :
                   api_keys[i] = k /\ \A j \in 1..(i-1) : api_keys[j] # k

\* ------------------------------------------------------------------ Init
Init ==
    /\ api_keys \in KeyLists
    /\ max_requests_per_minute \in MaxRequestsValues
    /\ last_used = [k \in KeySet |-> 0]
    /\ request_count = [k \in KeySet |-> 0]
    /\ is_available = [k \in KeySet |-> TRUE]
    /\ cooldown_until = [k \in KeySet |-> 0]
    /\ lock = NoTask
    /\ now = StartTime
    /\ op = [t \in Tasks |-> "idle"]
    /\ pc = [t \in Tasks |-> "idle"]
    /\ max_retries = [t \in Tasks |-> 0]
    /\ attempt = [t \in Tasks |-> 0]
    /\ api_key = [t \in Tasks |-> None]
    /\ current_time = [t \in Tasks |-> 0]
    /\ selected_key = [t \in Tasks |-> None]
    /\ loaded = [t \in Tasks |-> 0]
    /\ e = [t \in Tasks |-> ""]
    /\ result = [t \in Tasks |-> "pending"]
    /\ trace = [t \in Tasks |-> << >>]
    /\ backoff = [t \in Tasks |-> 0]
    /\ configured = None
    /\ cache = [h \in {} |-> None]
    /\ called = [fn |-> "none"]
    /\ stored = {}

\* ----------------------------------------------------------------- clock
Tick ==
    /\ now < StartTime + MaxTicks * ClockStep
    /\ now' = now + ClockStep
    /\ UNCHANGED <<api_keys, max_requests_per_minute, last_used, request_count,
                   is_available, cooldown_until, lock, taskVars>>
    /\ UNCHANGED <<configured, cacheVars>>

\* ----------------------------------------------------- get_available_key
\* get_available_key and mark_key_failed without "async with self.lock"
LockFreeUnguarded(t) == TRUE

\* async with self.lock
LockFree(t) == lock = NoTask

\* the sweep comparing against the time of the failure instead of its end
CooldownElapsedSinceFailure(k, ct) == cooldown_until[k] < ct + cooldown_duration

\* "if status.cooldown_until < current_time"
CooldownElapsed(k, ct) == cooldown_until[k] < ct

\* a sweep that resets the counts but never restores is_available
SweepAvailableKeepsFlag(ct) == is_available

SweepAvailable(ct) ==
    [k \in KeySet |-> IF CooldownElapsed(k, ct) THEN TRUE ELSE is_available[k]]

\* a sweep that zeroes the count of every record, cooled down or not
SweepCountResetsAll(ct) == [k \in KeySet |-> 0]

SweepCount(ct) ==
    [k \in KeySet |-> IF CooldownElapsed(k, ct) THEN 0 ELSE request_count[k]]

\* available_keys without the is_available test of line 53
AvailableKeysIgnoringCooldown(avail, count) ==
    { k \in KeySet : count[k] < max_requests_per_minute }

\* available_keys, over the swept records
AvailableKeys(avail, count) ==
    { k \in KeySet : avail[k] /\ count[k] < max_requests_per_minute }

\* the sort with the most recently used credential first among equal counts
SortsBeforeNewestFirst(a, b, count) ==
    \/ count[a] < count[b]
    \/ count[a] = count[b] /\ last_used[a] > last_used[b]
    \/ count[a] = count[b] /\ last_used[a] = last_used[b]
         /\ DictIndex(a) < DictIndex(b)

\* order of available_keys.sort(key=(request_count, last_used)); the sort is
\* stable, so equal keys stay in dict order
SortsBefore(a, b, count) ==
    \/ count[a] < count[b]
    \/ count[a] = count[b] /\ last_used[a] < last_used[b]
    \/ count[a] = count[b] /\ last_used[a] = last_used[b]
         /\ DictIndex(a) < DictIndex(b)

\* available_keys[-1].key: the last of the sorted list instead of the first
LastSorted(cands, count) ==
    CHOOSE k \in cands : \A j \in cands \ {k} : SortsBefore(j, k, count)

\* available_keys[0].key after the sort
FirstSorted(cands, count) ==
    CHOOSE k \in cands : \A j \in cands \ {k} : SortsBefore(k, j, count)

\* return of get_available_key / mark_key_failed to the code that awaited it
AfterGet(t) == IF op[t] = "get" THEN "done" ELSE "got"
AfterMark(t) == IF op[t] = "mark" THEN "done" ELSE "marked"

CallGetAvailableKey(t) ==
    /\ pc[t] = "idle"
    /\ op' = [op EXCEPT ![t] = "get"]
    /\ pc' = [pc EXCEPT ![t] = "get_enter"]
    /\ UNCHANGED <<backoff,
                   poolVars, max_retries, attempt, api_key, current_time,
                   selected_key, loaded, e, result, trace>>
    /\ UNCHANGED <<configured, cacheVars>>

\* lines 41-63: take the lock, read the clock, sweep, filter, sort, pick
GetKeyEnter(t) ==
    /\ pc[t] = "get_enter"
    /\ LockFree(t)
    /\ LET avail == SweepAvailable(now)
           count == SweepCount(now)
           cands == AvailableKeys(avail, count)
       IN /\ is_available' = avail
          /\ request_count' = count
          /\ current_time' = [current_time EXCEPT ![t] = now]
          /\ IF cands = {}
             THEN /\ api_key' = [api_key EXCEPT ![t] = None]
                  /\ result' = [result EXCEPT ![t] =
                                  IF op[t] = "get" THEN None ELSE @]
                  /\ trace' = [trace EXCEPT ![t] =
                                  IF op[t] = "get" THEN @
                                  ELSE Append(@, [key |-> None, out |-> "none"])]
                  /\ pc' = [pc EXCEPT ![t] = AfterGet(t)]
                  /\ UNCHANGED <<lock, selected_key>>
             ELSE /\ selected_key' = [selected_key EXCEPT ![t] =
                                        FirstSorted(cands, count)]
                  /\ lock' = t
                  /\ pc' = [pc EXCEPT ![t] = "get_load"]
                  /\ UNCHANGED <<api_key, result, trace>>
    /\ UNCHANGED <<backoff,
                   api_keys, max_requests_per_minute, last_used, cooldown_until,
                   now, op, max_retries, attempt, loaded, e>>
    /\ UNCHANGED <<configured, cacheVars>>

\* line 66 writing last_used of every record instead of the selected one
GetKeyLoadStampsAll(t) ==
    /\ pc[t] = "get_load"
    /\ last_used' = [k \in KeySet |-> current_time[t]]
    /\ loaded' = [loaded EXCEPT ![t] = request_count[selected_key[t]]]
    /\ pc' = [pc EXCEPT ![t] = "get_store"]
    /\ UNCHANGED <<backoff,
                   api_keys, max_requests_per_minute, request_count,
                   is_available, cooldown_until, lock, now, op, max_retries,
                   attempt, api_key, current_time, selected_key, e, result,
                   trace>>
    /\ UNCHANGED <<configured, cacheVars>>

\* line 66 and the read half of line 67
GetKeyLoad(t) ==
    /\ pc[t] = "get_load"
    /\ last_used' = [last_used EXCEPT ![selected_key[t]] = current_time[t]]
    /\ loaded' = [loaded EXCEPT ![t] = request_count[selected_key[t]]]
    /\ pc' = [pc EXCEPT ![t] = "get_store"]
    /\ UNCHANGED <<backoff,
                   api_keys, max_requests_per_minute, request_count,
                   is_available, cooldown_until, lock, now, op, max_retries,
                   attempt, api_key, current_time, selected_key, e, result,
                   trace>>
    /\ UNCHANGED <<configured, cacheVars>>

\* the write half of line 67, line 69 and the release of the lock
GetKeyStore(t) ==
    /\ pc[t] = "get_store"
    /\ request_count' = [request_count EXCEPT ![selected_key[t]] = loaded[t] + 1]
    /\ lock' = NoTask
    /\ api_key' = [api_key EXCEPT ![t] = selected_key[t]]
    /\ result' = [result EXCEPT ![t] =
                    IF op[t] = "get" THEN selected_key[t] ELSE @]
    /\ trace' = [trace EXCEPT ![t] =
                    IF op[t] = "get" THEN @
                    ELSE Append(@, [key |-> selected_key[t], out |-> "pending"])]
    /\ selected_key' = [selected_key EXCEPT ![t] = None]
    /\ loaded' = [loaded EXCEPT ![t] = 0]
    /\ pc' = [pc EXCEPT ![t] = AfterGet(t)]
    /\ UNCHANGED <<backoff,
                   api_keys, max_requests_per_minute, last_used, is_available,
                   cooldown_until, now, op, max_retries, attempt, current_time,
                   e>>
    /\ UNCHANGED <<configured, cacheVars>>

\* ------------------------------------------------------- mark_key_failed
CallMarkKeyFailed(t, k) ==
    /\ pc[t] = "idle"
    /\ op' = [op EXCEPT ![t] = "mark"]
    /\ api_key' = [api_key EXCEPT ![t] = k]
    /\ pc' = [pc EXCEPT ![t] = "mark"]
    /\ UNCHANGED <<backoff,
                   poolVars, max_retries, attempt, current_time, selected_key,
                   loaded, e, result, trace>>
    /\ UNCHANGED <<configured, cacheVars>>

\* a mark_key_failed that stores the duration instead of the end time
MarkKeyFailedRelativeCooldown(t) ==
    /\ pc[t] = "mark"
    /\ LockFree(t)
    /\ IF api_key[t] \in KeySet
       THEN /\ is_available' = [is_available EXCEPT ![api_key[t]] = FALSE]
            /\ cooldown_until' = [cooldown_until EXCEPT ![api_key[t]] =
                                    cooldown_duration]
       ELSE UNCHANGED <<is_available, cooldown_until>>
    /\ result' = [result EXCEPT ![t] = IF op[t] = "mark" THEN None ELSE @]
    /\ pc' = [pc EXCEPT ![t] = AfterMark(t)]
    /\ UNCHANGED <<backoff,
                   api_keys, max_requests_per_minute, last_used, request_count,
                   lock, now, op, max_retries, attempt, api_key, current_time,
                   selected_key, loaded, e, trace>>
    /\ UNCHANGED <<configured, cacheVars>>

\* lines 73-78; error_type only reaches the log line
MarkKeyFailed(t) ==
    /\ pc[t] = "mark"
    /\ LockFree(t)
    /\ IF api_key[t] \in KeySet
       THEN /\ is_available' = [is_available EXCEPT ![api_key[t]] = FALSE]
            /\ cooldown_until' = [cooldown_until EXCEPT ![api_key[t]] =
                                    now + cooldown_duration]
       ELSE UNCHANGED <<is_available, cooldown_until>>
    /\ result' = [result EXCEPT ![t] = IF op[t] = "mark" THEN None ELSE @]
    /\ pc' = [pc EXCEPT ![t] = AfterMark(t)]
    /\ UNCHANGED <<backoff,
                   api_keys, max_requests_per_minute, last_used, request_count,
                   lock, now, op, max_retries, attempt, api_key, current_time,
                   selected_key, loaded, e, trace>>
    /\ UNCHANGED <<configured, cacheVars>>

\* -------------------------------------------------------- get_pool_status
\* the characters of the configured credential strings: one shorter than
\* the key_id slice, one of exactly its length, one longer
KeyText(k) ==
    CASE k = "A" -> <<"a", "1">>
      [] k = "B" -> <<"b", "1", "2", "3", "4", "5", "6", "7">>
      [] k = "C" -> <<"c", "1", "2", "3", "4", "5", "6", "7", "8", "9">>

\* s[-n:]
LastChars(s, n) ==
    IF Len(s) <= n THEN s ELSE SubSeq(s, Len(s) - n + 1, Len(s))

\* the keys of the key_status dict, in insertion order
RECURSIVE DictKeysOf(_)
DictKeysOf(keys) ==
    IF keys = << >> THEN << >>
    ELSE LET front == DictKeysOf(SubSeq(keys, 1, Len(keys) - 1))
             last == keys[Len(keys)]
         IN IF last \in Range(front) THEN front ELSE Append(front, last)

DictKeys == DictKeysOf(api_keys)

\* max(0, key_status.cooldown_until - current_time)
CooldownRemaining(k, ct) ==
    IF cooldown_until[k] - ct > 0 THEN cooldown_until[k] - ct ELSE 0

\* key_info, lines 163-168
KeyInfo(k, ct) ==
    [ key_id |-> LastChars(KeyText(k), KeyIdLength),
      available |-> is_available[k],
      request_count |-> request_count[k],
      cooldown_remaining |-> CooldownRemaining(k, ct) ]

\* the dict get_pool_status returns
PoolStatus(ct) ==
    [ total_keys |-> Len(api_keys),
      available_keys |-> Cardinality({ k \in KeySet : is_available[k] }),
      rate_limited_keys |-> Cardinality({ k \in KeySet : ~is_available[k] }),
      keys |-> [ i \in 1..Len(DictKeys) |-> KeyInfo(DictKeys[i], ct) ] ]

\* a get_pool_status that also runs the sweep of get_available_key
GetPoolStatusSweeping(t) ==
    /\ pc[t] = "idle"
    /\ op' = [op EXCEPT ![t] = "status"]
    /\ pc' = [pc EXCEPT ![t] = "done"]
    /\ is_available' = SweepAvailable(now)
    /\ request_count' = SweepCount(now)
    /\ result' = [result EXCEPT ![t] = PoolStatus(now)]
    /\ UNCHANGED <<api_keys, max_requests_per_minute, last_used,
                   cooldown_until, lock, now, max_retries, attempt, api_key,
                   current_time, selected_key, loaded, e, trace, backoff>>
    /\ UNCHANGED <<configured, cacheVars>>

\* lines 152-177: a plain method, it takes no lock and awaits nothing
GetPoolStatus(t) ==
    /\ pc[t] = "idle"
    /\ op' = [op EXCEPT ![t] = "status"]
    /\ pc' = [pc EXCEPT ![t] = "done"]
    /\ result' = [result EXCEPT ![t] = PoolStatus(now)]
    /\ UNCHANGED <<poolVars, max_retries, attempt, api_key, current_time,
                   selected_key, loaded, e, trace, backoff>>
    /\ UNCHANGED <<configured, cacheVars>>

\* ------------------------------------------- generate_content_with_retry
\* "word in error_msg" for the words lines 104-106 look for
Contains(msg, word) ==
    CASE msg = "rate limit: quota exceeded" -> word \in {"rate", "quota"}
      [] msg = "api key invalid"            -> word = "invalid"
      [] OTHER                              -> FALSE

\* the branch of lines 104-109 an error text takes
ErrorType(msg) ==
    IF Contains(msg, "quota") \/ Contains(msg, "rate") THEN "rate_limit"
    ELSE IF Contains(msg, "invalid") THEN "invalid_key"
    ELSE "other"

\* the invalid-key branch forgetting to await mark_key_failed
ReportsFailureRateOnly(msg) == ErrorType(msg) = "rate_limit"

\* lines 104-109: the branches that await mark_key_failed
ReportsFailure(msg) == ErrorType(msg) \in {"rate_limit", "invalid_key"}

\* "for attempt in range(max_retries)"
InRange(a, n) == a < n

\* the last-attempt test off by one
LastAttemptOffByOne(a, n) == a = n

\* "attempt == max_retries - 1" / "attempt < max_retries - 1"
LastAttempt(a, n) == a = n - 1

Outcome(tr, o) == [tr EXCEPT ![Len(tr)].out = o]

CallGenerate(t, n) ==
    /\ pc[t] = "idle"
    /\ op' = [op EXCEPT ![t] = "gen"]
    /\ max_retries' = [max_retries EXCEPT ![t] = n]
    /\ attempt' = [attempt EXCEPT ![t] = 0]
    /\ pc' = [pc EXCEPT ![t] = "loop"]
    /\ UNCHANGED <<backoff,
                   poolVars, api_key, current_time, selected_key, loaded, e,
                   result, trace>>
    /\ UNCHANGED <<configured, cacheVars>>

\* line 82 (next iteration, or fall out of the loop to line 116) and line 83
GenLoop(t) ==
    /\ pc[t] = "loop"
    /\ IF InRange(attempt[t], max_retries[t])
       THEN /\ pc' = [pc EXCEPT ![t] = "get_enter"]
            /\ UNCHANGED result
       ELSE /\ pc' = [pc EXCEPT ![t] = "done"]
            /\ result' = [result EXCEPT ![t] = "return None"]
    /\ UNCHANGED <<backoff,
                   poolVars, op, max_retries, attempt, api_key, current_time,
                   selected_key, loaded, e, trace>>
    /\ UNCHANGED <<configured, cacheVars>>

\* lines 85-90
GenGot(t) ==
    /\ pc[t] = "got"
    /\ IF api_key[t] = None
       THEN IF ~LastAttempt(attempt[t], max_retries[t])
            THEN /\ pc' = [pc EXCEPT ![t] = "sleep"]
                 /\ backoff' = [backoff EXCEPT ![t] = NoKeyBackoff]
                 /\ UNCHANGED result
            ELSE /\ pc' = [pc EXCEPT ![t] = "done"]
                 /\ result' = [result EXCEPT ![t] = "raise exhausted"]
                 /\ UNCHANGED backoff
       ELSE /\ pc' = [pc EXCEPT ![t] = "work"]
            /\ UNCHANGED <<result, backoff>>
    /\ UNCHANGED <<poolVars, op, max_retries, attempt, api_key, current_time,
                   selected_key, loaded, e, trace>>
    /\ UNCHANGED <<configured, cacheVars>>

\* a success that falls through to the end of the loop body instead of
\* returning
GenWorkOkFallsThrough(t) ==
    /\ pc[t] = "work"
    /\ trace' = [trace EXCEPT ![t] = Outcome(@, "ok")]
    /\ pc' = [pc EXCEPT ![t] = "marked"]
    /\ UNCHANGED <<poolVars, op, max_retries, attempt, api_key, current_time,
                   selected_key, loaded, e, result, backoff>>
    /\ configured' = api_key[t]
    /\ UNCHANGED cacheVars

\* lines 92-99: genai.configure and model.generate_content run without an
\* await between them; the upstream call returns text or raises
GenWorkOk(t) ==
    /\ pc[t] = "work"
    /\ trace' = [trace EXCEPT ![t] = Outcome(@, "ok")]
    /\ result' = [result EXCEPT ![t] = "return text"]
    /\ pc' = [pc EXCEPT ![t] = "done"]
    /\ UNCHANGED <<backoff,
                   poolVars, op, max_retries, attempt, api_key, current_time,
                   selected_key, loaded, e>>
    /\ configured' = api_key[t]
    /\ UNCHANGED cacheVars

GenWorkFail(t, msg) ==
    /\ pc[t] = "work"
    /\ trace' = [trace EXCEPT ![t] = Outcome(@, msg)]
    /\ e' = [e EXCEPT ![t] = msg]
    /\ pc' = [pc EXCEPT ![t] = "except"]
    /\ UNCHANGED <<backoff,
                   poolVars, op, max_retries, attempt, api_key, current_time,
                   selected_key, loaded, result>>
    /\ configured' = api_key[t]
    /\ UNCHANGED cacheVars

\* the same lines in two steps: line 94, genai.configure(api_key=api_key)
GenConfigure(t) ==
    /\ pc[t] = "work"
    /\ configured' = api_key[t]
    /\ UNCHANGED cacheVars
    /\ pc' = [pc EXCEPT ![t] = "call"]
    /\ UNCHANGED <<poolVars, op, max_retries, attempt, api_key, current_time,
                   selected_key, loaded, e, result, trace, backoff>>

\* lines 95-99: the completion call, made with the configured credential,
\* returns
GenCallOk(t) ==
    /\ pc[t] = "call"
    /\ trace' = [trace EXCEPT ![t] = Outcome(@, "ok")]
    /\ result' = [result EXCEPT ![t] = "return text"]
    /\ pc' = [pc EXCEPT ![t] = "done"]
    /\ UNCHANGED <<poolVars, op, max_retries, attempt, api_key, current_time,
                   selected_key, loaded, e, backoff, configured, cacheVars>>

\* lines 95-98 and 101: the completion call raises
GenCallFail(t, msg) ==
    /\ pc[t] = "call"
    /\ trace' = [trace EXCEPT ![t] = Outcome(@, msg)]
    /\ e' = [e EXCEPT ![t] = msg]
    /\ pc' = [pc EXCEPT ![t] = "except"]
    /\ UNCHANGED <<poolVars, op, max_retries, attempt, api_key, current_time,
                   selected_key, loaded, result, backoff, configured,
                   cacheVars>>

\* lines 101-109
GenExcept(t) ==
    /\ pc[t] = "except"
    /\ pc' = [pc EXCEPT ![t] = IF ReportsFailure(e[t]) THEN "mark" ELSE "marked"]
    /\ UNCHANGED <<backoff,
                   poolVars, op, max_retries, attempt, api_key, current_time,
                   selected_key, loaded, e, result, trace>>
    /\ UNCHANGED <<configured, cacheVars>>

\* lines 111-114
GenMarked(t) ==
    /\ pc[t] = "marked"
    /\ IF LastAttempt(attempt[t], max_retries[t])
       THEN /\ pc' = [pc EXCEPT ![t] = "done"]
            /\ result' = [result EXCEPT ![t] = "raise e"]
            /\ UNCHANGED backoff
       ELSE /\ pc' = [pc EXCEPT ![t] = "sleep"]
            /\ backoff' = [backoff EXCEPT ![t] = FailureBackoff]
            /\ UNCHANGED result
    /\ UNCHANGED <<poolVars, op, max_retries, attempt, api_key, current_time,
                   selected_key, loaded, e, trace>>
    /\ UNCHANGED <<configured, cacheVars>>

\* a loop that takes the same attempt again after the no-key backoff
GenSleepRetriesSameAttempt(t) ==
    /\ pc[t] = "sleep"
    /\ attempt' = [attempt EXCEPT ![t] =
                     IF backoff[t] = NoKeyBackoff THEN @ ELSE @ + 1]
    /\ api_key' = [api_key EXCEPT ![t] = None]
    /\ e' = [e EXCEPT ![t] = ""]
    /\ backoff' = [backoff EXCEPT ![t] = 0]
    /\ pc' = [pc EXCEPT ![t] = "loop"]
    /\ UNCHANGED <<poolVars, op, max_retries, current_time, selected_key,
                   loaded, result, trace>>
    /\ UNCHANGED <<configured, cacheVars>>

\* asyncio.sleep of lines 87 and 114 is over; "continue" / end of loop body
GenSleep(t) ==
    /\ pc[t] = "sleep"
    /\ attempt' = [attempt EXCEPT ![t] = @ + 1]
    /\ api_key' = [api_key EXCEPT ![t] = None]
    /\ e' = [e EXCEPT ![t] = ""]
    /\ backoff' = [backoff EXCEPT ![t] = 0]
    /\ pc' = [pc EXCEPT ![t] = "loop"]
    /\ UNCHANGED <<poolVars, op, max_retries, current_time, selected_key,
                   loaded, result, trace>>
    /\ UNCHANGED <<configured, cacheVars>>

\* ------------------------------------ generate_content_stream_with_retry
\* the streaming method reporting only rate-limit failures
StreamReportsFailureRateOnly(msg) ==
    Contains(msg, "quota") \/ Contains(msg, "rate")

\* lines 140-143: the branches that await mark_key_failed (there is no else)
StreamReportsFailure(msg) ==
    \/ Contains(msg, "quota") \/ Contains(msg, "rate")
    \/ Contains(msg, "invalid")

\* "for attempt in range(max_retries)", line 120
StreamInRange(a, n) == a < n

\* "attempt < max_retries - 1", line 124; "attempt == max_retries - 1", line 145
StreamLastAttempt(a, n) == a = n - 1

CallStream(t, n) ==
    /\ pc[t] = "idle"
    /\ op' = [op EXCEPT ![t] = "stream"]
    /\ max_retries' = [max_retries EXCEPT ![t] = n]
    /\ attempt' = [attempt EXCEPT ![t] = 0]
    /\ pc' = [pc EXCEPT ![t] = "loop"]
    /\ UNCHANGED <<poolVars, api_key, current_time, selected_key, loaded, e,
                   result, trace, backoff>>
    /\ UNCHANGED <<configured, cacheVars>>

\* line 120 (next iteration, or fall out of the loop to line 150), line 121
StreamLoop(t) ==
    /\ pc[t] = "loop"
    /\ IF StreamInRange(attempt[t], max_retries[t])
       THEN /\ pc' = [pc EXCEPT ![t] = "get_enter"]
            /\ UNCHANGED result
       ELSE /\ pc' = [pc EXCEPT ![t] = "done"]
            /\ result' = [result EXCEPT ![t] = "return None"]
    /\ UNCHANGED <<poolVars, op, max_retries, attempt, api_key, current_time,
                   selected_key, loaded, e, trace, backoff>>
    /\ UNCHANGED <<configured, cacheVars>>

\* lines 123-128
StreamGot(t) ==
    /\ pc[t] = "got"
    /\ IF api_key[t] = None
       THEN IF ~StreamLastAttempt(attempt[t], max_retries[t])
            THEN /\ pc' = [pc EXCEPT ![t] = "sleep"]
                 /\ backoff' = [backoff EXCEPT ![t] = StreamNoKeyBackoff]
                 /\ UNCHANGED result
            ELSE /\ pc' = [pc EXCEPT ![t] = "done"]
                 /\ result' = [result EXCEPT ![t] = "raise exhausted"]
                 /\ UNCHANGED backoff
       ELSE /\ pc' = [pc EXCEPT ![t] = "work"]
            /\ UNCHANGED <<result, backoff>>
    /\ UNCHANGED <<poolVars, op, max_retries, attempt, api_key, current_time,
                   selected_key, loaded, e, trace>>
    /\ UNCHANGED <<configured, cacheVars>>

\* lines 130-135: the stream is opened and handed back, or opening it raises
StreamWorkOk(t) ==
    /\ pc[t] = "work"
    /\ trace' = [trace EXCEPT ![t] = Outcome(@, "ok")]
    /\ result' = [result EXCEPT ![t] = "return response"]
    /\ pc' = [pc EXCEPT ![t] = "done"]
    /\ UNCHANGED <<poolVars, op, max_retries, attempt, api_key, current_time,
                   selected_key, loaded, e, backoff>>
    /\ configured' = api_key[t]
    /\ UNCHANGED cacheVars

StreamWorkFail(t, msg) ==
    /\ pc[t] = "work"
    /\ trace' = [trace EXCEPT ![t] = Outcome(@, msg)]
    /\ e' = [e EXCEPT ![t] = msg]
    /\ pc' = [pc EXCEPT ![t] = "except"]
    /\ UNCHANGED <<poolVars, op, max_retries, attempt, api_key, current_time,
                   selected_key, loaded, result, backoff>>
    /\ configured' = api_key[t]
    /\ UNCHANGED cacheVars

\* lines 137-143
StreamExcept(t) ==
    /\ pc[t] = "except"
    /\ pc' = [pc EXCEPT ![t] =
                IF StreamReportsFailure(e[t]) THEN "mark" ELSE "marked"]
    /\ UNCHANGED <<poolVars, op, max_retries, attempt, api_key, current_time,
                   selected_key, loaded, e, result, trace, backoff>>
    /\ UNCHANGED <<configured, cacheVars>>

\* lines 145-148
StreamMarked(t) ==
    /\ pc[t] = "marked"
    /\ IF StreamLastAttempt(attempt[t], max_retries[t])
       THEN /\ pc' = [pc EXCEPT ![t] = "done"]
            /\ result' = [result EXCEPT ![t] = "raise e"]
            /\ UNCHANGED backoff
       ELSE /\ pc' = [pc EXCEPT ![t] = "sleep"]
            /\ backoff' = [backoff EXCEPT ![t] = StreamFailureBackoff]
            /\ UNCHANGED result
    /\ UNCHANGED <<poolVars, op, max_retries, attempt, api_key, current_time,
                   selected_key, loaded, e, trace>>
    /\ UNCHANGED <<configured, cacheVars>>

\* asyncio.sleep of lines 125 and 148 is over; "continue" / end of loop body
StreamSleep(t) ==
    /\ pc[t] = "sleep"
    /\ attempt' = [attempt EXCEPT ![t] = @ + 1]
    /\ api_key' = [api_key EXCEPT ![t] = None]
    /\ e' = [e EXCEPT ![t] = ""]
    /\ backoff' = [backoff EXCEPT ![t] = 0]
    /\ pc' = [pc EXCEPT ![t] = "loop"]
    /\ UNCHANGED <<poolVars, op, max_retries, current_time, selected_key,
                   loaded, result, trace>>
    /\ UNCHANGED <<configured, cacheVars>>

\* the awaiting caller takes the result; the task is free for its next call
Return(t) ==
    /\ pc[t] = "done"
    /\ op' = [op EXCEPT ![t] = "idle"]
    /\ pc' = [pc EXCEPT ![t] = "idle"]
    /\ max_retries' = [max_retries EXCEPT ![t] = 0]
    /\ attempt' = [attempt EXCEPT ![t] = 0]
    /\ api_key' = [api_key EXCEPT ![t] = None]
    /\ current_time' = [current_time EXCEPT ![t] = 0]
    /\ e' = [e EXCEPT ![t] = ""]
    /\ result' = [result EXCEPT ![t] = "pending"]
    /\ trace' = [trace EXCEPT ![t] = << >>]
    /\ UNCHANGED <<backoff,
                   poolVars, selected_key, loaded>>
    /\ UNCHANGED <<configured, cacheVars>>

\* ------------------------------------------------------------ fast_cache
\* response_cache = FastCache(default_ttl=300)
default_ttl == 300
\* the slice prompt[:100] of cache_ai_response and get_cached_response
PromptPrefixLength == 100

\* prompts of the chat endpoint: two that agree on their first
\* PromptPrefixLength characters and differ after them, and a short one
LongPrefix == [i \in 1..PromptPrefixLength |-> "x"]
Prompts == { LongPrefix \o <<"a">>, LongPrefix \o <<"b">>, <<"h", "i">> }
Responses == { "v1", "v2" }
\* the ttl argument of set: << >> for None, otherwise <<seconds>>
TtlArgs == { << >>, <<0>>, <<ClockStep>> }

\* s[:n]
FirstChars(s, n) == IF Len(s) <= n THEN s ELSE SubSeq(s, 1, n)

\* f"ai:{prompt[:100]}"
AiKey(prompt) == <<"a", "i", ":">> \o FirstChars(prompt, PromptPrefixLength)

CacheKeys == { AiKey(q) : q \in Prompts }

\* _hash_key: the first 16 hex digits of the md5 of the key, kept as a
\* digest that stands for its input (no two modelled keys share a digest)
HashKey(key) == [md5_16 |-> key]

\* "ttl or self.default_ttl": None and 0 are both falsy
TtlOrDefault(ttl) ==
    IF ttl = << >> THEN default_ttl
    ELSE IF ttl[1] = 0 THEN default_ttl
    ELSE ttl[1]

\* self.cache after self.cache[hashed_key] = {'value': ..., 'expires': ...}
CacheWith(key, value, ttl) ==
    [ h \in DOMAIN cache \cup {HashKey(key)} |->
        IF h = HashKey(key)
        THEN [value |-> value, expires |-> now + TtlOrDefault(ttl)]
        ELSE cache[h] ]

\* lines 28-34: the entry of the key is present and not yet expired
CacheHit(key) ==
    /\ HashKey(key) \in DOMAIN cache
    /\ now < cache[HashKey(key)].expires

GetReturn(key) == IF CacheHit(key) THEN cache[HashKey(key)].value ELSE None

\* self.cache after get: an expired entry of the key is deleted
CacheAfterGet(key) ==
    IF HashKey(key) \in DOMAIN cache /\ ~CacheHit(key)
    THEN [ h \in DOMAIN cache \ {HashKey(key)} |-> cache[h] ]
    ELSE cache

Call(fn, key, prompt, value, ttl, ret) ==
    [fn |-> fn, key |-> key, prompt |-> prompt, value |-> value, ttl |-> ttl,
     at |-> now, ret |-> ret]

\* FastCache.set
CacheSet(key, value, ttl) ==
    /\ cache' = CacheWith(key, value, ttl)
    /\ called' = Call("set", key, << >>, value, ttl, None)
    /\ UNCHANGED <<poolVars, taskVars, configured, stored>>

\* FastCache.get
CacheGet(key) ==
    /\ cache' = CacheAfterGet(key)
    /\ called' = Call("get", key, << >>, None, << >>, GetReturn(key))
    /\ UNCHANGED <<poolVars, taskVars, configured, stored>>

\* FastCache.clear_expired
ClearExpired ==
    /\ cache' = [ h \in { x \in DOMAIN cache : ~(now >= cache[x].expires) } |->
                    cache[h] ]
    /\ called' = Call("clear_expired", << >>, << >>, None, << >>, None)
    /\ UNCHANGED <<poolVars, taskVars, configured, stored>>

\* cache_ai_response(prompt, response)
CacheAiResponse(prompt, response) ==
    /\ cache' = CacheWith(AiKey(prompt), response, << >>)
    /\ called' = Call("cache_ai_response", AiKey(prompt), prompt, response,
                      << >>, None)
    /\ stored' = stored \cup { <<prompt, response>> }
    /\ UNCHANGED <<poolVars, taskVars, configured>>

\* get_cached_response(prompt)
GetCachedResponse(prompt) ==
    /\ cache' = CacheAfterGet(AiKey(prompt))
    /\ called' = Call("get_cached_response", AiKey(prompt), prompt, None,
                      << >>, GetReturn(AiKey(prompt)))
    /\ UNCHANGED <<poolVars, taskVars, configured, stored>>

\* ------------------------------------------------------ specifications
\* callers that use the pool's own interface (pool_status.py, tests): any
\* number of concurrent get_available_key and mark_key_failed calls on a
\* two-credential pool
InitPool ==
    /\ Init
    /\ api_keys = <<"A", "B">>

NextPool ==
    \/ Tick
    \/ \E t \in Tasks : CallGetAvailableKey(t)
    \/ \E t \in Tasks : GetKeyEnter(t)
    \/ \E t \in Tasks : GetKeyLoad(t)
    \/ \E t \in Tasks : GetKeyStore(t)
    \/ \E t \in Tasks : \E k \in KeySet : CallMarkKeyFailed(t, k)
    \/ \E t \in Tasks : MarkKeyFailed(t)
    \/ \E t \in Tasks : Return(t)

SpecPool == InitPool /\ [][NextPool]_vars

\* the chat endpoint of main.py: generate_content_with_retry calls, one
\* after the other, on a pool of one or of three credentials as constructed
GenTasks == {1}

InitGen ==
    /\ Init
    /\ api_keys \in { <<"A">>, <<"A", "B", "C">> }
    /\ max_requests_per_minute = DefaultMaxRequests

NextGen ==
    \/ Tick
    \/ \E t \in GenTasks : \E n \in MaxRetriesValues : CallGenerate(t, n)
    \/ \E t \in Tasks : GenLoop(t)
    \/ \E t \in Tasks : GetKeyEnter(t)
    \/ \E t \in Tasks : GetKeyLoad(t)
    \/ \E t \in Tasks : GetKeyStore(t)
    \/ \E t \in Tasks : GenGot(t)
    \/ \E t \in Tasks : GenWorkOk(t)
    \/ \E t \in Tasks : \E msg \in ErrorTexts : GenWorkFail(t, msg)
    \/ \E t \in Tasks : GenExcept(t)
    \/ \E t \in Tasks : MarkKeyFailed(t)
    \/ \E t \in Tasks : GenMarked(t)
    \/ \E t \in Tasks : GenSleep(t)
    \/ \E t \in Tasks : Return(t)

SpecGen == InitGen /\ [][NextGen]_vars

\* SpecGen with the scheduling of the event loop: every awaited step of the
\* call is run, every sleep ends, and every unit of work returns
FairGen ==
    \A t \in GenTasks :
        /\ WF_vars(GenLoop(t))
        /\ WF_vars(GetKeyEnter(t))
        /\ WF_vars(GetKeyLoad(t))
        /\ WF_vars(GetKeyStore(t))
        /\ WF_vars(GenGot(t))
        /\ WF_vars(GenWorkOk(t) \/ \E msg \in ErrorTexts : GenWorkFail(t, msg))
        /\ WF_vars(GenExcept(t))
        /\ WF_vars(MarkKeyFailed(t))
        /\ WF_vars(GenMarked(t))
        /\ WF_vars(GenSleep(t))

SpecGenFair == SpecGen /\ FairGen

\* the monitoring route of pool_status.py next to the pool's own interface:
\* concurrent get_available_key, mark_key_failed and get_pool_status calls
NextStatus ==
    \/ NextPool
    \/ \E t \in Tasks : GetPoolStatus(t)

SpecStatus == InitPool /\ [][NextStatus]_vars

\* one caller making get_available_key, mark_key_failed and get_pool_status
\* calls one after the other, on pools of one, two and three credentials
SeqTasks == {1}

NextSeq ==
    \/ Tick
    \/ \E t \in SeqTasks : CallGetAvailableKey(t)
    \/ \E t \in Tasks : GetKeyEnter(t)
    \/ \E t \in Tasks : GetKeyLoad(t)
    \/ \E t \in Tasks : GetKeyStore(t)
    \/ \E t \in SeqTasks : \E k \in KeySet : CallMarkKeyFailed(t, k)
    \/ \E t \in Tasks : MarkKeyFailed(t)
    \/ \E t \in SeqTasks : GetPoolStatus(t)
    \/ \E t \in Tasks : Return(t)

SpecSeq == Init /\ [][NextSeq]_vars

\* the streaming chat endpoint of main.py: generate_content_stream_with_retry
\* calls, one after the other, on the pools of SpecGen
NextStream ==
    \/ Tick
    \/ \E t \in GenTasks : \E n \in MaxRetriesValues : CallStream(t, n)
    \/ \E t \in Tasks : StreamLoop(t)
    \/ \E t \in Tasks : GetKeyEnter(t)
    \/ \E t \in Tasks : GetKeyLoad(t)
    \/ \E t \in Tasks : GetKeyStore(t)
    \/ \E t \in Tasks : StreamGot(t)
    \/ \E t \in Tasks : StreamWorkOk(t)
    \/ \E t \in Tasks : \E msg \in ErrorTexts : StreamWorkFail(t, msg)
    \/ \E t \in Tasks : StreamExcept(t)
    \/ \E t \in Tasks : MarkKeyFailed(t)
    \/ \E t \in Tasks : StreamMarked(t)
    \/ \E t \in Tasks : StreamSleep(t)
    \/ \E t \in Tasks : Return(t)

SpecStream == InitGen /\ [][NextStream]_vars

\* one caller of get_available_key and mark_key_failed on the pool of
\* SpecPool, with the scheduling of the event loop: the clock advances,
\* every awaited step of a call is run, and the caller keeps calling
\* get_available_key
NextCaller ==
    \/ Tick
    \/ \E t \in SeqTasks : CallGetAvailableKey(t)
    \/ \E t \in Tasks : GetKeyEnter(t)
    \/ \E t \in Tasks : GetKeyLoad(t)
    \/ \E t \in Tasks : GetKeyStore(t)
    \/ \E t \in SeqTasks : \E k \in KeySet : CallMarkKeyFailed(t, k)
    \/ \E t \in Tasks : MarkKeyFailed(t)
    \/ \E t \in Tasks : Return(t)

FairCaller ==
    /\ WF_vars(Tick)
    /\ \A t \in SeqTasks :
          /\ SF_vars(CallGetAvailableKey(t))
          /\ WF_vars(GetKeyEnter(t))
          /\ WF_vars(GetKeyLoad(t))
          /\ WF_vars(GetKeyStore(t))
          /\ WF_vars(MarkKeyFailed(t))
          /\ WF_vars(Return(t))

SpecCallerFair == InitPool /\ [][NextCaller]_vars /\ FairCaller

\* a chat request next to a caller of the pool's own interface, on the one
\* event loop of main.py and a pool of one credential. model.generate_content (line 98) is a plain call
\* inside the coroutine: from the return of `await self.get_available_key()`
\* to the end of that call there is no await, so the loop runs no other task
LoopCallers == {2}

\* tasks on pre-emptive threads: a task can run at any moment
LoopFreeThreaded == TRUE

LoopFree == \A t \in Tasks : pc[t] \notin {"work", "call"}

InitLoop ==
    /\ Init
    /\ api_keys = <<"A">>
    /\ max_requests_per_minute = DefaultMaxRequests

NextLoop ==
    \/ Tick
    \/ \E t \in GenTasks : \E n \in MaxRetriesValues :
          LoopFree /\ CallGenerate(t, n)
    \/ \E t \in LoopCallers : LoopFree /\ CallGetAvailableKey(t)
    \/ \E t \in LoopCallers : \E k \in KeySet :
          LoopFree /\ CallMarkKeyFailed(t, k)
    \/ \E t \in Tasks : LoopFree /\ GenLoop(t)
    \/ \E t \in Tasks : LoopFree /\ GetKeyEnter(t)
    \/ \E t \in Tasks : LoopFree /\ GetKeyLoad(t)
    \/ \E t \in Tasks : LoopFree /\ GetKeyStore(t)
    \/ \E t \in Tasks : LoopFree /\ GenGot(t)
    \/ \E t \in Tasks : GenWorkOk(t)
    \/ \E t \in Tasks : \E msg \in ErrorTexts : GenWorkFail(t, msg)
    \/ \E t \in Tasks : LoopFree /\ GenExcept(t)
    \/ \E t \in Tasks : LoopFree /\ MarkKeyFailed(t)
    \/ \E t \in Tasks : LoopFree /\ GenMarked(t)
    \/ \E t \in Tasks : LoopFree /\ GenSleep(t)
    \/ \E t \in Tasks : LoopFree /\ Return(t)

SpecLoop == InitLoop /\ [][NextLoop]_vars

\* two chat requests on the one event loop of main.py, each a
\* generate_content_with_retry call on a pool of two credentials, within one
\* reading of the clock, with genai.configure and the completion call as
\* separate steps of the task the loop is running
ConfigTasks == {1, 2}

InitConfig ==
    /\ Init
    /\ api_keys = <<"A", "B">>
    /\ max_requests_per_minute = DefaultMaxRequests

NextConfig ==
    \/ \E t \in ConfigTasks : \E n \in MaxRetriesValues :
          LoopFree /\ CallGenerate(t, n)
    \/ \E t \in Tasks : LoopFree /\ GenLoop(t)
    \/ \E t \in Tasks : LoopFree /\ GetKeyEnter(t)
    \/ \E t \in Tasks : LoopFree /\ GetKeyLoad(t)
    \/ \E t \in Tasks : LoopFree /\ GetKeyStore(t)
    \/ \E t \in Tasks : LoopFree /\ GenGot(t)
    \/ \E t \in Tasks : GenConfigure(t)
    \/ \E t \in Tasks : GenCallOk(t)
    \/ \E t \in Tasks : \E msg \in ErrorTexts : GenCallFail(t, msg)
    \/ \E t \in Tasks : LoopFree /\ GenExcept(t)
    \/ \E t \in Tasks : LoopFree /\ MarkKeyFailed(t)
    \/ \E t \in Tasks : LoopFree /\ GenMarked(t)
    \/ \E t \in Tasks : LoopFree /\ GenSleep(t)
    \/ \E t \in Tasks : LoopFree /\ Return(t)

SpecConfig == InitConfig /\ [][NextConfig]_vars

\* a FastCache used through set, get and the cleanup task
InitCache ==
    /\ Init
    /\ api_keys = <<"A">>
    /\ max_requests_per_minute = DefaultMaxRequests

NextCache ==
    \/ Tick
    \/ \E key \in CacheKeys : \E value \in Responses : \E ttl \in TtlArgs :
          CacheSet(key, value, ttl)
    \/ \E key \in CacheKeys : CacheGet(key)
    \/ ClearExpired

SpecCache == InitCache /\ [][NextCache]_vars

\* the response cache of the chat endpoint: lookups and stores of responses
NextResponseCache ==
    \/ Tick
    \/ \E prompt \in Prompts : \E response \in Responses :
          CacheAiResponse(prompt, response)
    \/ \E prompt \in Prompts : GetCachedResponse(prompt)

SpecResponseCache == InitCache /\ [][NextResponseCache]_vars

\* ============================================================== claims
\* a step in which task t's get_available_key returns a credential
ReturnsKey(t) == pc[t] = "get_store" /\ pc'[t] # "get_store"
\* a step in which task t's get_available_key runs lines 41-63
Enters(t) == pc[t] = "get_enter" /\ pc'[t] # "get_enter"

\* C1: under any interleaving of concurrent get_available_key calls, every
\* call that returns credential k adds exactly 1 to k's request_count in the
\* step it returns, and no other step raises a request_count: the only other
\* change of a request_count is the reset to 0 by a sweep.
C1_ExactlyOneIncrement ==
    [][\A k \in KeySet :
         LET returning == { t \in Tasks : ReturnsKey(t) /\ api_key'[t] = k }
         IN IF returning # {}
            THEN request_count'[k] = request_count[k] + Cardinality(returning)
            ELSE request_count'[k] \in {request_count[k], 0}]_vars

\* two concurrent calls have both returned a credential
C1_Witness ==
    /\ \A t \in {1, 2} : op[t] = "get" /\ pc[t] = "done" /\ result[t] \in KeySet
    /\ \E k \in KeySet : request_count[k] = 1

\* C2: a get_available_key call that reads the clock at t never returns a
\* credential whose latest mark_key_failed happened at T with
\* T <= t < T + cooldown_duration.
C2_ExcludedDuringCooldown ==
    [][\A t \in Tasks : ReturnsKey(t) =>
         LET k == api_key'[t]
         IN ~ ( /\ cooldown_until[k] # 0
                /\ cooldown_until[k] - cooldown_duration <= current_time[t]
                /\ current_time[t] < cooldown_until[k] )]_vars

\* a call made strictly inside the cooldown of k has returned, and not with k
C2_Witness ==
    \E t \in Tasks : \E k \in KeySet :
        /\ op[t] = "get" /\ pc[t] = "done"
        /\ ~is_available[k]
        /\ cooldown_until[k] - cooldown_duration < current_time[t]
        /\ current_time[t] < cooldown_until[k]
        /\ result[t] # k

\* C3: a get_available_key call made at any t >= T + cooldown_duration,
\* t = T + cooldown_duration included, sweeps a credential marked failed at
\* T back to available.
C3_EligibleAtExpiry ==
    [][\A t \in Tasks : Enters(t) =>
         \A k \in KeySet :
            (~is_available[k] /\ now >= cooldown_until[k])
               => is_available'[k]]_vars

\* C4: two credentials, max_requests_per_minute = 1, no failure ever
\* reported, both credentials handed out within the current window: the next
\* get_available_key call returns None.
C4_ThirdCallReturnsNone ==
    [][\A t \in Tasks :
         ( /\ Enters(t)
           /\ op[t] = "get"
           /\ Len(api_keys) = 2
           /\ max_requests_per_minute = 1
           /\ \A k \in KeySet :
                 /\ cooldown_until[k] = 0
                 /\ last_used[k] > 0
                 /\ now - last_used[k] < cooldown_duration )
         => (pc'[t] = "done" /\ result'[t] = None)]_vars

\* a finished generate_content_with_retry call of task t
GenDone(t) == op[t] = "gen" /\ pc[t] = "done"
\* the unit of work failed in the i-th attempt of task t's call
FailedAttempt(t, i) == trace[t][i].out \in ErrorTexts
\* an attempt outcome that is a rate-limit or an invalid-key failure
RateOrInvalid(out) ==
    out \in ErrorTexts /\ ErrorType(out) \in {"rate_limit", "invalid_key"}

\* C5: a call with max_retries = 3 on the three-credential pool whose unit
\* of work failed on A, then on B, then succeeded on C returns the text, and
\* A and B are both unavailable when it returns, whatever the error texts.
C5_FailoverCoolsBoth ==
    \A t \in Tasks :
        ( /\ GenDone(t)
          /\ max_retries[t] = 3
          /\ Len(trace[t]) = 3
          /\ trace[t][1].key = "A" /\ FailedAttempt(t, 1)
          /\ trace[t][2].key = "B" /\ FailedAttempt(t, 2)
          /\ trace[t][3] = [key |-> "C", out |-> "ok"] )
        => ( /\ result[t] = "return text"
             /\ ~is_available["A"]
             /\ ~is_available["B"] )

C7_NeverReturnsNone ==
    \A t \in Tasks : GenDone(t) => result[t] # "return None"

\* C8: a call never ends by raising the error of one of its attempts: the
\* only error it raises is the exhaustion error.
C8_OnlyExhaustionRaised ==
    \A t \in Tasks : GenDone(t) => result[t] # "raise e"

\* C9: once the except block of an attempt is through its classification,
\* the credential of that attempt is in cooldown, whatever the error text.
C9_EveryFailureCooled ==
    \A t \in Tasks : (op[t] = "gen" /\ pc[t] = "marked") =>
        /\ ~is_available[api_key[t]]
        /\ cooldown_until[api_key[t]] >= current_time[t] + cooldown_duration

\* C10 as stated: an attempt never gets the credential on which the attempt
\* before it failed with a rate-limit or invalid-key error.
C10_NextAttemptOtherKey ==
    \A t \in Tasks : \A i \in 1..(Len(trace[t]) - 1) :
        RateOrInvalid(trace[t][i].out)
           => trace[t][i + 1].key # trace[t][i].key

\* C10 amended: get_available_key does not select the credential on which
\* the attempt before failed with a rate-limit or invalid-key error when it
\* reads the clock no more than cooldown_duration after that credential was
\* handed out for the failed attempt (last_used still holds that time when
\* the selection is made).
C10_NextAttemptOtherKeyWithinCooldown ==
    \A t \in Tasks :
        ( /\ op[t] = "gen"
          /\ pc[t] = "get_load"
          /\ Len(trace[t]) >= 1 )
        => LET prev == trace[t][Len(trace[t])]
           IN ( /\ RateOrInvalid(prev.out)
                /\ current_time[t] <= last_used[prev.key] + cooldown_duration )
              => selected_key[t] # prev.key

\* the attempt after a reported failure got another credential
C10_Witness ==
    \E t \in Tasks :
        /\ op[t] = "gen"
        /\ Len(trace[t]) >= 2
        /\ RateOrInvalid(trace[t][1].out)
        /\ trace[t][2].key \in KeySet \ {trace[t][1].key}

\* a finished get_pool_status call of task t
StatusDone(t) == op[t] = "status" /\ pc[t] = "done"

\* C11: while no failure has been reported and some credential has never
\* been handed out, a get_available_key call of a single caller selects a
\* credential that has never been handed out; so the first K calls on a
\* fresh pool of K credentials return K distinct credentials.
C11_FreshKeysFirst ==
    [][\A t \in Tasks :
         ( /\ Enters(t)
           /\ \A k \in KeySet : cooldown_until[k] = 0
           /\ \E k \in KeySet : last_used[k] = 0 )
         => ( /\ pc'[t] = "get_load"
              /\ last_used[selected_key'[t]] = 0 )]_vars

\* three calls on a fresh three-credential pool have returned, the last
\* one with the third credential
C11_Witness ==
    /\ Len(api_keys) = 3
    /\ \A k \in KeySet : cooldown_until[k] = 0 /\ last_used[k] > 0
    /\ op[1] = "get" /\ pc[1] = "done" /\ result[1] = "C"

\* C12: no request_count ever exceeds max_requests_per_minute, under any
\* interleaving of get_available_key, mark_key_failed and get_pool_status.
C12_CountWithinLimit ==
    \A k \in KeySet : request_count[k] <= max_requests_per_minute

\* a credential is at the limit while a get_pool_status call has returned
C12_Witness ==
    /\ max_requests_per_minute = 1
    /\ \E k \in KeySet : request_count[k] = max_requests_per_minute
    /\ \E t \in Tasks : StatusDone(t)

\* C13: a get_pool_status call changes no request_count, is_available,
\* cooldown_until or last_used, whatever the other tasks are in the middle
\* of.
C13_StatusReadOnly ==
    [][\A t \in Tasks :
         (pc[t] = "idle" /\ op'[t] = "status")
         => UNCHANGED <<request_count, is_available, cooldown_until,
                        last_used>>]_vars

\* a get_pool_status call has reported an elapsed cooldown and left the
\* record unavailable, while another task is inside get_available_key
C13_Witness ==
    \E t \in Tasks : \E u \in Tasks \ {t} :
        /\ StatusDone(t)
        /\ pc[u] \in {"get_enter", "get_load", "get_store"}
        /\ \E i \in 1..Len(DictKeys) :
              /\ ~result[t].keys[i].available
              /\ result[t].keys[i].cooldown_remaining = 0
              /\ ~is_available[DictKeys[i]]

\* C14: from every state a streaming call reaches, each step of
\* generate_content_stream_with_retry is the step generate_content_with_retry
\* takes there (same get_available_key and mark_key_failed calls, same
\* backoff, same return or raise; a success hands back the response instead
\* of its text), and whatever step the one can take the other can take.
C14_StreamStepsAreGenerateSteps ==
    [][\A t \in Tasks :
         /\ StreamLoop(t) => GenLoop(t)
         /\ StreamGot(t) => GenGot(t)
         /\ \A msg \in ErrorTexts : StreamWorkFail(t, msg) => GenWorkFail(t, msg)
         /\ StreamExcept(t) => GenExcept(t)
         /\ StreamMarked(t) => GenMarked(t)
         /\ StreamSleep(t) => GenSleep(t)
         /\ StreamWorkOk(t) =>
               /\ pc'[t] = "done"
               /\ result'[t] = "return response"
               /\ trace'[t] = Outcome(trace[t], "ok")
               /\ UNCHANGED <<poolVars, attempt, api_key, backoff>>
         /\ (ENABLED GenLoop(t)) <=> (ENABLED StreamLoop(t))
         /\ (ENABLED GenGot(t)) <=> (ENABLED StreamGot(t))
         /\ (ENABLED GenWorkOk(t)) <=> (ENABLED StreamWorkOk(t))
         /\ (ENABLED GenExcept(t)) <=> (ENABLED StreamExcept(t))
         /\ (ENABLED GenMarked(t)) <=> (ENABLED StreamMarked(t))
         /\ (ENABLED GenSleep(t)) <=> (ENABLED StreamSleep(t))]_vars

\* a streaming call has failed over from a reported failure to a success
C14_Witness ==
    \E t \in Tasks :
        /\ op[t] = "stream" /\ pc[t] = "done"
        /\ result[t] = "return response"
        /\ Len(trace[t]) >= 2
        /\ RateOrInvalid(trace[t][1].out)

\* C15: a successful attempt is the last thing a call does: once an
\* attempt of a call has succeeded the call is finished with that attempt's
\* text, no later attempt (no further get_available_key call) exists, and
\* the credential that succeeded is available.
C15_SuccessReturnsImmediately ==
    \A t \in Tasks : op[t] = "gen" =>
        \A i \in 1..Len(trace[t]) :
            trace[t][i].out = "ok"
               => ( /\ i = Len(trace[t])
                    /\ pc[t] = "done"
                    /\ result[t] = "return text"
                    /\ is_available[trace[t][i].key] )

\* a call has succeeded on its second attempt with a third one left
C15_Witness ==
    \E t \in Tasks :
        /\ GenDone(t)
        /\ max_retries[t] = 3
        /\ Len(trace[t]) = 2
        /\ FailedAttempt(t, 1)
        /\ trace[t][2].out = "ok"

\* ------------------------------------------------------------------ C16
\* task u is inside get_available_key or mark_key_failed
InsidePoolCall(u) == pc[u] \in {"get_enter", "get_load", "get_store", "mark"}

\* C16: a task that is invoking the unit of work or sleeping in a backoff
\* does not hold the pool lock, and every other task that is inside
\* get_available_key or mark_key_failed at that moment can take its next step
C16_WorkNeverBlocksOthers ==
    \A t \in Tasks :
        pc[t] \in {"work", "sleep"} =>
            /\ lock # t
            /\ \A u \in Tasks \ {t} :
                  InsidePoolCall(u) => ENABLED (NextLoop /\ pc'[u] # pc[u])

\* ------------------------------------------------------------------ C17
\* C17: in every dict get_pool_status returns, the key_id of each entry is
\* a suffix of the credential that is shorter than, and so differs from, the
\* whole credential
C17_KeyIdNeverWholeKey ==
    \A t \in Tasks :
        StatusDone(t) =>
            \A i \in 1..Len(result[t].keys) :
                LET whole == KeyText(DictKeys[i])
                    shown == result[t].keys[i].key_id
                IN /\ Len(shown) < Len(whole)
                   /\ shown = SubSeq(whole, Len(whole) - Len(shown) + 1,
                                     Len(whole))
                   /\ shown # whole

\* ------------------------------------------------------------------ C18
\* C18: the sweep of get_available_key resets a record only if it is
\* unavailable and its cooldown has elapsed; the request_count of a record
\* that is available is not reset or decreased by a get_available_key call
C18_SweepResetsOnlyCooledKeys ==
    [][ \A t \in Tasks :
          Enters(t) =>
              \A k \in KeySet :
                  /\ (is_available[k] \/ ~(cooldown_until[k] < now)) =>
                        /\ is_available'[k] = is_available[k]
                        /\ request_count'[k] = request_count[k]
                  /\ is_available[k] => request_count'[k] >= request_count[k]
      ]_vars

\* ------------------------------------------------------------------ C19
\* C19: a get_available_key call that has the lock runs at once; it returns
\* None exactly when, after the sweep, no record is available with
\* request_count below max_requests_per_minute, and otherwise the credential
\* it picks, and then returns, is one of those records
C19_NoneIffNoCandidate ==
    [][ \A t \in Tasks :
          /\ (pc[t] = "get_enter" /\ lock = NoTask) => ENABLED GetKeyEnter(t)
          /\ Enters(t) =>
               LET candidates == { k \in KeySet :
                                     /\ is_available'[k]
                                     /\ request_count'[k]
                                          < max_requests_per_minute }
               IN IF candidates = {}
                  THEN /\ pc'[t] = AfterGet(t)
                       /\ api_key'[t] = None
                       /\ lock' = NoTask
                  ELSE /\ pc'[t] = "get_load"
                       /\ selected_key'[t] \in candidates
          /\ ReturnsKey(t) =>
               /\ api_key'[t] = selected_key[t]
               /\ api_key'[t] \in KeySet
      ]_vars

\* a direct call has returned None while every credential is in cooldown
C19_Witness ==
    \E t \in Tasks :
        /\ op[t] = "get"
        /\ pc[t] = "done"
        /\ result[t] = None
        /\ \A k \in KeySet : ~is_available[k] /\ cooldown_until[k] >= now

\* ------------------------------------------------------------------ C20
\* C20: the credential get_available_key picks is a minimum of the candidate
\* set under (request_count, last_used), both read after the sweep and
\* before the increment: no candidate has a smaller request_count, and no
\* candidate with the same request_count has an older last_used
C20_PicksMinimum ==
    [][ \A t \in Tasks :
          (Enters(t) /\ pc'[t] = "get_load") =>
              LET c == selected_key'[t]
                  candidates == { k \in KeySet :
                                    /\ is_available'[k]
                                    /\ request_count'[k]
                                         < max_requests_per_minute }
              IN \A j \in candidates :
                    /\ request_count'[j] >= request_count'[c]
                    /\ request_count'[j] = request_count'[c] =>
                          last_used[j] >= last_used[c]
      ]_vars

\* a credential has been picked while another candidate, used more recently,
\* was passed over
C20_Witness ==
    \E t \in Tasks :
        /\ pc[t] = "get_load"
        /\ \E j \in KeySet \ {selected_key[t]} :
              /\ is_available[j]
              /\ request_count[j] = request_count[selected_key[t]]
              /\ last_used[j] > last_used[selected_key[t]]
              /\ DictIndex(j) < DictIndex(selected_key[t])

\* ------------------------------------------------------------------ C21
\* a step of task t inside get_available_key
GetStep(t) ==
    /\ pc[t] \in {"get_enter", "get_load", "get_store"}
    /\ pc'[t] # pc[t]

\* C21: a get_available_key call that returns credential c leaves c with
\* last_used equal to the time the call read and with request_count one
\* above its value after the sweep; no step of the call changes a
\* cooldown_until or the last_used of another record, and is_available and
\* request_count of the other records change only by the sweep reset
C21_PickEffectAndFrame ==
    [][ \A t \in Tasks :
          /\ pc[t] \in {"get_load", "get_store"} =>
               LET c == selected_key[t]
               IN IF ReturnsKey(t)
                  THEN /\ api_key'[t] = c
                       /\ last_used'[c] = current_time[t]
                       /\ request_count'[c] = request_count[c] + 1
                  ELSE request_count'[c] = request_count[c]
          /\ GetStep(t) =>
               LET c == IF pc[t] = "get_enter" THEN selected_key'[t]
                        ELSE selected_key[t]
               IN /\ cooldown_until' = cooldown_until
                  /\ \A k \in KeySet \ {c} :
                        /\ last_used'[k] = last_used[k]
                        /\ \/ /\ is_available'[k] = is_available[k]
                              /\ request_count'[k] = request_count[k]
                           \/ /\ pc[t] = "get_enter"
                              /\ cooldown_until[k] < now
                              /\ is_available'[k]
                              /\ request_count'[k] = 0
      ]_vars

\* a call has returned a credential, stamped with the time the call read,
\* while the other credential still carries an older stamp
C21_Witness ==
    \E t \in Tasks : \E k \in KeySet :
        /\ op[t] = "get" /\ pc[t] = "done" /\ result[t] \in KeySet
        /\ last_used[result[t]] = current_time[t]
        /\ request_count[result[t]] = 1
        /\ k # result[t]
        /\ last_used[k] # 0
        /\ last_used[k] < current_time[t]

\* ------------------------------------------------------------------ C22
\* a step in which task t's mark_key_failed runs lines 73-78
Marks(t) == pc[t] = "mark" /\ pc'[t] # "mark"

\* C22: mark_key_failed(c, kind) sets c's is_available to False and c's
\* cooldown_until to the time of the call plus cooldown_duration, whatever
\* the kind, and changes neither c's request_count and last_used nor any
\* field of another record
C22_MarkEffectAndFrame ==
    [][ \A t \in Tasks :
          Marks(t) =>
              LET c == api_key[t]
              IN /\ ~is_available'[c]
                 /\ cooldown_until'[c] = now + cooldown_duration
                 /\ request_count' = request_count
                 /\ last_used' = last_used
                 /\ \A k \in KeySet \ {c} :
                       /\ is_available'[k] = is_available[k]
                       /\ cooldown_until'[k] = cooldown_until[k]
                 /\ api_keys' = api_keys
      ]_vars

\* an invalid-key failure has just been reported for a credential in use,
\* on a pool where another credential is cooling down from an earlier failure
C22_Witness ==
    \E t \in Tasks : \E k \in KeySet :
        /\ pc[t] = "marked"
        /\ e[t] = "api key invalid"
        /\ k # api_key[t]
        /\ ~is_available[api_key[t]]
        /\ cooldown_until[api_key[t]] = now + cooldown_duration
        /\ request_count[api_key[t]] = 1
        /\ ~is_available[k]
        /\ cooldown_until[k] < cooldown_until[api_key[t]]

\* ------------------------------------------------------------------ C23
\* C23: no step lowers the cooldown_until of a credential, and the
\* cooldown_until a mark_key_failed call writes together with
\* is_available = False is strictly later than the time of the call
C23_CooldownUntilMonotone ==
    [][ /\ \A k \in KeySet : cooldown_until'[k] >= cooldown_until[k]
        /\ \A t \in Tasks :
              (pc[t] = "mark" /\ pc'[t] # "mark" /\ ~is_available'[api_key[t]])
                  => cooldown_until'[api_key[t]] > now
      ]_vars

\* both tasks have reported a failure of the same credential, the later
\* report after the clock moved on
C23_Witness ==
    \E k \in KeySet :
        /\ \A t \in Tasks : op[t] = "mark" /\ pc[t] = "done" /\ api_key[t] = k
        /\ ~is_available[k]
        /\ cooldown_until[k] > StartTime + cooldown_duration

\* ------------------------------------------------------------------ C24
\* the last time of the modelled clock
EndTime == StartTime + MaxTicks * ClockStep

\* the cooldown_until values that the modelled clock passes
PassedCooldowns ==
    { StartTime + i * ClockStep + cooldown_duration : i \in 0..MaxTicks }
        \cap 1..(EndTime - 1)

\* C24: a get_available_key call made after the cooldown_until of an
\* unavailable credential has passed restores it to available with
\* request_count 0; and a credential whose cooldown ends within the modelled
\* clock becomes available again unless a new failure is reported for it
C24_CooldownNotTerminal ==
    /\ [][ \A t \in Tasks : \A k \in KeySet :
             (Enters(t) /\ ~is_available[k] /\ cooldown_until[k] < now)
                 => /\ is_available'[k]
                    /\ request_count'[k] = 0
         ]_vars
    /\ \A k \in {"A", "B"} : \A c \in PassedCooldowns :
          (~is_available[k] /\ cooldown_until[k] = c)
              ~> (is_available[k] \/ cooldown_until[k] # c)

\* a credential that was in cooldown is available again
C24_Witness ==
    \E k \in KeySet :
        /\ cooldown_until[k] >= StartTime + cooldown_duration
        /\ cooldown_until[k] < now
        /\ is_available[k]
        /\ request_count[k] = 0

\* ------------------------------------------------------------------ C25
\* the attempts of task t's call so far in which the unit of work was invoked
WorkAttempts(t) == { i \in 1..Len(trace[t]) : trace[t][i].key # None }

\* C25: a generate_content_with_retry call ends, given that every unit of
\* work returns; it makes at most max_retries get_available_key calls and at
\* most max_retries unit-of-work invocations; an attempt that got no
\* credential uses up one attempt: it is followed by the no-key backoff and
\* the next attempt, or by the exhaustion error if it was the last
C25_TerminatesWithinBudget ==
    /\ [](\A t \in Tasks : op[t] = "gen" =>
             /\ Len(trace[t]) <= max_retries[t]
             /\ Cardinality(WorkAttempts(t)) <= max_retries[t]
             /\ pc[t] \in {"got", "work", "except", "mark", "marked", "sleep"}
                   => Len(trace[t]) = attempt[t] + 1)
    /\ [][ \A t \in Tasks :
             /\ (pc[t] = "got" /\ api_key[t] = None /\ pc'[t] # "got") =>
                   IF attempt[t] + 1 < max_retries[t]
                   THEN pc'[t] = "sleep" /\ backoff'[t] = NoKeyBackoff
                   ELSE pc'[t] = "done" /\ result'[t] = "raise exhausted"
             /\ (pc[t] = "sleep" /\ pc'[t] # "sleep") =>
                   pc'[t] = "loop" /\ attempt'[t] = attempt[t] + 1
         ]_vars
    /\ \A t \in GenTasks : (op[t] = "gen") ~> (pc[t] = "done")

\* a call of three attempts has ended with the exhaustion error after the
\* unit of work failed once and no credential was available twice
C25_Witness ==
    \E t \in Tasks :
        /\ GenDone(t)
        /\ max_retries[t] = 3
        /\ Len(trace[t]) = 3
        /\ WorkAttempts(t) = {1}
        /\ trace[t][2].out = "none"
        /\ trace[t][3].out = "none"
        /\ result[t] = "raise exhausted"

\* ------------------------------------------------------------------ C26
\* C26: the pool holds one record per entry of the configured list, also
\* when an entry is repeated; the total_keys get_pool_status reports is the
\* number of records and is available_keys + rate_limited_keys; and no step
\* adds or removes a record
C26_OneRecordPerEntry ==
    /\ [](/\ Len(DictKeys) = Len(api_keys)
          /\ \A t \in Tasks :
                StatusDone(t) =>
                    /\ result[t].total_keys = Len(result[t].keys)
                    /\ result[t].total_keys =
                          result[t].available_keys + result[t].rate_limited_keys)
    /\ [][ /\ api_keys' = api_keys
           /\ DOMAIN is_available' = DOMAIN is_available
           /\ DOMAIN request_count' = DOMAIN request_count
           /\ DOMAIN last_used' = DOMAIN last_used
           /\ DOMAIN cooldown_until' = DOMAIN cooldown_until ]_vars

\* ------------------------------------------------------------------ C27
\* C27: with max_requests_per_minute >= 1, a get_available_key call that
\* returns None leaves every record as it was: is_available, request_count,
\* last_used and cooldown_until of every credential are unchanged
C27_NoneLeavesRecordsUntouched ==
    [][ \A t \in Tasks :
          (Enters(t) /\ pc'[t] # "get_load" /\ max_requests_per_minute >= 1)
              => /\ api_key'[t] = None
                 /\ is_available' = is_available
                 /\ request_count' = request_count
                 /\ last_used' = last_used
                 /\ cooldown_until' = cooldown_until
      ]_vars

\* a direct call has returned None on a pool whose credentials are all in
\* cooldown and still carry the count of their last use
C27_Witness ==
    \E t \in Tasks :
        /\ op[t] = "get" /\ pc[t] = "done" /\ result[t] = None
        /\ \A k \in KeySet : ~is_available[k] /\ request_count[k] = 1

\* ------------------------------------------------------------------ C28
\* C28: whenever a task is about to issue its completion call, the
\* credential last passed to genai.configure is the one this task acquired
\* for the attempt; no other task configures between a task's configure and
\* its completion call
C28_ConfiguredIsOwnKey ==
    /\ [](\A t \in Tasks : pc[t] = "call" => configured = api_key[t])
    /\ [][ \A t \in Tasks : \A u \in Tasks \ {t} :
             pc[t] = "call" => ~(pc[u] = "work" /\ pc'[u] = "call") ]_vars

\* a task is about to issue its completion call with its own credential
\* while the other task, holding the other credential, waits to go on
C28_Witness ==
    \E t \in Tasks : \E u \in Tasks \ {t} :
        /\ pc[t] = "call"
        /\ configured = api_key[t]
        /\ api_key[u] \in KeySet \ {api_key[t]}
        /\ pc[u] \in {"got", "except", "mark", "marked", "sleep"}

\* ------------------------------------------------------------------ C29
\* C29: a value get_cached_response(p) returns was given to
\* cache_ai_response together with the same prompt p
C29_ServesOnlyOwnPrompt ==
    (called.fn = "get_cached_response" /\ called.ret # None)
        => <<called.prompt, called.ret>> \in stored

\* ------------------------------------------------------------------ C30
\* C30: for every ttl >= 0, 0 included, a get(key) that follows
\* set(key, value, ttl) made at T returns value before T + ttl, and at or
\* after T + ttl returns None and removes the entry; and right after
\* clear_expired no entry expires at or before the current time
C30_TtlHonoured ==
    [][ /\ ( /\ called.fn = "set"
             /\ called.ttl # << >>
             /\ called'.fn = "get"
             /\ called'.key = called.key )
           => IF now < called.at + called.ttl[1]
              THEN called'.ret = called.value
              ELSE /\ called'.ret = None
                   /\ HashKey(called.key) \notin DOMAIN cache'
        /\ (called'.fn = "clear_expired" /\ called'.at = now)
              => \A h \in DOMAIN cache' : cache'[h].expires > now
      ]_vars

TypeOK ==
    /\ lock \in Tasks \cup {NoTask}
    /\ \A k \in KeySet : request_count[k] \in 0..max_requests_per_minute
    /\ configured \in KeySet \cup {None}

====
